---- MODULE Spec2Model ----
(***************************************************************************)
(* A model of libtransmission's logging core (libtransmission/log.cc):     *)
(* the severity gate, the per-call-site flood suppressor, the bounded      *)
(* message queue, the sink dispatcher and the two tr_logAddMessage forms,  *)
(* run by concurrent threads that share message_mutex_.                    *)
(***************************************************************************)
EXTENDS Integers, Sequences, FiniteSets, TLC

(***************************************************************************)
(* Bounds of the model.                                                    *)
(***************************************************************************)
\* log.h sets the queue's capacity (10000 upstream); the model scales it down.
TR_LOG_MAX_QUEUE_LENGTH == 2
\* message submissions per behaviour, per specification
MaxCalls == 3
MaxQueueCalls == 4
MaxFloodCalls == 32
MaxSeqCalls == 2
MaxGateCalls == 2
MaxLiveCalls == 2
\* the wall clock runs from 0 to MaxTime
MaxTime == 1

(***************************************************************************)
(* Program constants.                                                      *)
(***************************************************************************)
MaxRepeat == 30
BufSize == 2048

\* enum tr_log_level, by increasing verbosity
TR_LOG_CRITICAL == 1
TR_LOG_ERROR == 2
TR_LOG_WARN == 3
TR_LOG_INFO == 4
TR_LOG_DEBUG == 5
TR_LOG_TRACE == 6

Levels == TR_LOG_CRITICAL .. TR_LOG_TRACE

(***************************************************************************)
(* Text.  A string is its content (a sequence of pieces) and its length in *)
(* bytes; a prefix of a string keeps the content's name and the shorter    *)
(* length, so a truncated text differs from the whole one.                 *)
(***************************************************************************)
Str(text, len) == [text |-> text, len |-> len]

EmptyStr == Str(<<>>, 0)

empty(s) == s.len = 0

Prefix(s, n) ==
    IF n >= s.len THEN s
    ELSE IF n <= 0 THEN EmptyStr
    ELSE Str(s.text, n)

RECURSIVE tr_strvJoin(_)
tr_strvJoin(pieces) ==
    IF pieces = <<>> THEN EmptyStr
    ELSE LET rest == tr_strvJoin(Tail(pieces))
         IN  Str(Head(pieces).text \o rest.text, Head(pieces).len + rest.len)

\* the translated notice of tr_logAddMessage
TooManyMessages ==
    Str(<<"Too many messages like this! I won't log this message anymore this session.">>, 76)

\* "%Y-%m-%d %H:%M:%S" "." "%03d" of the current time
tr_logGetTimeStr(time) == Str(<<"time", ToString(time)>>, 23)

(***************************************************************************)
(* The threads, the call sites and the standard streams.                   *)
(***************************************************************************)
Threads == {"T1", "T2"}

NoThread == "none"

Sites == {<<"a.cc", 10>>, <<"b.cc", 20>>}

NoSite == <<"", 0>>

Errnos == {0, 5}

TR_STD_SYS_FILE_OUT == "stdout"

TR_STD_SYS_FILE_ERR == "stderr"

TR_BAD_SYS_FILE == "bad"

StdFiles == {TR_STD_SYS_FILE_OUT, TR_STD_SYS_FILE_ERR}

VARIABLES
    tr_message_level,   \* the threshold
    myQueueEnabled,
    myQueue,            \* the list from myQueue to *myQueueTail, oldest first
    myQueueLength,
    message_mutex_,     \* [owner, depth] of the recursive mutex
    counts,             \* tr_logAddMessage's static map: call site -> repeats
    logfile,            \* tr_logGetFile's statics: [initialized, file]
    TR_DEBUG_FD,        \* the environment variable, read once
    stdfile,            \* per standard stream: lines written, last line, lines flushed
    now,                \* the wall clock
    heap_next,          \* the next block tr_new0 hands out
    pc,                 \* per thread: where it is in its call
    frame,              \* per thread: the arguments and locals of its call
    errno,              \* per thread
    ret,                \* per thread: the list its last tr_logGetQueue returned
    ncalls,             \* history: message submissions so far
    submitted,          \* history: records queued since the last drain
    evicted,            \* history: blocks freed by overflow
    returned            \* history: blocks handed out by drains, in order

globals == <<tr_message_level, myQueueEnabled, myQueue, myQueueLength, message_mutex_,
             counts, logfile, TR_DEBUG_FD, stdfile, now, heap_next>>

locals == <<pc, frame, errno, ret>>

history == <<ncalls, submitted, evicted, returned>>

vars == <<globals, locals, history>>

NoFrame ==
    [form |-> "none", file_line |-> NoSite, level |-> 0, name |-> EmptyStr,
     msg |-> EmptyStr, fmt |-> EmptyStr, err |-> 0, fmt_err |-> 0, last_one |-> FALSE]

NoStream == [lines |-> 0, last |-> EmptyStr, flushed |-> 0]

Init ==
    /\ tr_message_level = TR_LOG_ERROR
    /\ myQueueEnabled = FALSE
    /\ myQueue = <<>>
    /\ myQueueLength = 0
    /\ message_mutex_ = [owner |-> NoThread, depth |-> 0]
    /\ counts = [s \in Sites |-> 0]
    /\ logfile = [initialized |-> FALSE, file |-> TR_BAD_SYS_FILE]
    /\ TR_DEBUG_FD \in 0 .. 2
    /\ stdfile = [f \in StdFiles |-> NoStream]
    /\ now = 0
    /\ heap_next = 1
    /\ pc = [t \in Threads |-> "idle"]
    /\ frame = [t \in Threads |-> NoFrame]
    /\ errno = [t \in Threads |-> 0]
    /\ ret = [t \in Threads |-> <<>>]
    /\ ncalls = 0
    /\ submitted = <<>>
    /\ evicted = {}
    /\ returned = <<>>

InitUnset == Init /\ TR_DEBUG_FD = 0

(***************************************************************************)
(* The severity gate.                                                      *)
(***************************************************************************)
tr_logGetLevel == tr_message_level

\* log.h: a level is active when it is no more verbose than the threshold
tr_logLevelIsActive(level) == tr_logGetLevel >= level

\* SkipUnwanted with the negation lost
SkipUnwanted_Inverted(level) == tr_logLevelIsActive(level)

\* tr_logAddMessage's "skip unwanted messages" test
SkipUnwanted(level) == ~tr_logLevelIsActive(level)

tr_logSetLevel(level) ==
    /\ tr_message_level' = level
    /\ UNCHANGED <<myQueueEnabled, myQueue, myQueueLength, message_mutex_, counts,
                   logfile, TR_DEBUG_FD, stdfile, now, heap_next>>
    /\ UNCHANGED <<locals, history>>

(***************************************************************************)
(* The queue's switch.                                                     *)
(***************************************************************************)
tr_logGetQueueEnabled == myQueueEnabled

\* tr_logSetQueueEnabled dropping the queue when it switches queueing off
tr_logSetQueueEnabled_Clears(isEnabled) ==
    /\ myQueueEnabled' = isEnabled
    /\ myQueue' = IF isEnabled THEN myQueue ELSE <<>>
    /\ myQueueLength' = IF isEnabled THEN myQueueLength ELSE 0
    /\ UNCHANGED <<tr_message_level, message_mutex_, counts,
                   logfile, TR_DEBUG_FD, stdfile, now, heap_next>>
    /\ UNCHANGED <<locals, history>>

tr_logSetQueueEnabled(isEnabled) ==
    /\ myQueueEnabled' = isEnabled
    /\ UNCHANGED <<tr_message_level, myQueue, myQueueLength, message_mutex_, counts,
                   logfile, TR_DEBUG_FD, stdfile, now, heap_next>>
    /\ UNCHANGED <<locals, history>>

(***************************************************************************)
(* message_mutex_, a std::recursive_mutex: the owner may lock it again.    *)
(***************************************************************************)
\* CanLock of a std::mutex, which its owner cannot lock again
CanLock_NonRecursive(t) == message_mutex_.owner = NoThread

CanLock(t) == message_mutex_.owner \in {NoThread, t}

Lock(m, t) == [owner |-> t, depth |-> m.depth + 1]

Unlock(m) ==
    IF m.depth = 1 THEN [owner |-> NoThread, depth |-> 0]
    ELSE [owner |-> m.owner, depth |-> m.depth - 1]

(***************************************************************************)
(* The wall clock (tr_time, tr_gettimeofday).                              *)
(***************************************************************************)
Tick ==
    /\ now < MaxTime
    /\ now' = now + 1
    /\ UNCHANGED <<tr_message_level, myQueueEnabled, myQueue, myQueueLength,
                   message_mutex_, counts, logfile, TR_DEBUG_FD, stdfile, heap_next>>
    /\ UNCHANGED <<locals, history>>

(***************************************************************************)
(* The queue.                                                              *)
(***************************************************************************)
\* the blocks tr_logFreeQueue(list) frees
tr_logFreeQueue(list) == {list[i].addr : i \in DOMAIN list}

\* QueueAppend linking the new record at the head instead of at *myQueueTail
QueueAppend_AtHead(queue, length, newmsg) ==
    LET appended == <<newmsg>> \o queue
        len1 == length + 1
    IN  IF len1 > TR_LOG_MAX_QUEUE_LENGTH
        THEN [queue |-> Tail(appended), length |-> len1 - 1,
              freed |-> tr_logFreeQueue(<<Head(appended)>>)]
        ELSE [queue |-> appended, length |-> len1, freed |-> {}]

\* QueueAppend freeing the record at the tail instead of the one at the head
QueueAppend_EvictNewest(queue, length, newmsg) ==
    LET len1 == length + 1
    IN  IF len1 > TR_LOG_MAX_QUEUE_LENGTH
        THEN [queue |-> queue, length |-> len1 - 1, freed |-> tr_logFreeQueue(<<newmsg>>)]
        ELSE [queue |-> Append(queue, newmsg), length |-> len1, freed |-> {}]

\* QueueAppend without the test of the length against the bound
QueueAppend_NoEvict(queue, length, newmsg) ==
    [queue |-> Append(queue, newmsg), length |-> length + 1, freed |-> {}]

\* logAddImpl's append at *myQueueTail, and the eviction of the head once the
\* length has passed the bound: the queue, its length and the blocks freed
QueueAppend(queue, length, newmsg) ==
    LET appended == Append(queue, newmsg)
        len1 == length + 1
    IN  IF len1 > TR_LOG_MAX_QUEUE_LENGTH
        THEN [queue |-> Tail(appended), length |-> len1 - 1,
              freed |-> tr_logFreeQueue(<<Head(appended)>>)]
        ELSE [queue |-> appended, length |-> len1, freed |-> {}]

\* QueueDrain handing the list out without emptying the queue
QueueDrain_KeepsQueue(queue) == [ret |-> queue, queue |-> queue, length |-> Len(queue)]

\* tr_logGetQueue's exchange: the list handed out, and the queue left behind
QueueDrain(queue) == [ret |-> queue, queue |-> <<>>, length |-> 0]

(***************************************************************************)
(* The sink.                                                               *)
(***************************************************************************)
\* tr_logGetFile: TR_DEBUG_FD is read on the first call only
tr_logGetFile(statics) ==
    IF statics.initialized THEN statics
    ELSE [initialized |-> TRUE,
          file |-> CASE TR_DEBUG_FD = 1 -> TR_STD_SYS_FILE_OUT
                     [] TR_DEBUG_FD = 2 -> TR_STD_SYS_FILE_ERR
                     [] OTHER -> TR_BAD_SYS_FILE]

\* logAddImpl's choice of stream: the debug file, or else standard error
SinkOf(statics) ==
    IF statics.file = TR_BAD_SYS_FILE THEN TR_STD_SYS_FILE_ERR ELSE statics.file

\* the line logAddImpl writes
FormatLine(timestr, name, msg) ==
    IF ~empty(name)
    THEN tr_strvJoin(<<Str(<<"[">>, 1), timestr, Str(<<"] ">>, 2), name, Str(<<": ">>, 2), msg>>)
    ELSE tr_strvJoin(<<Str(<<"[">>, 1), timestr, Str(<<"] ">>, 2), msg>>)

tr_sys_file_write_line(stream, out) ==
    [stream EXCEPT !.lines = @ + 1, !.last = out]

tr_sys_file_flush(stream) ==
    [stream EXCEPT !.flushed = stream.lines]

\* SinkWrite without the flush
SinkWrite_NoFlush(stream, out) == tr_sys_file_write_line(stream, out)

\* write one line and flush
SinkWrite(stream, out) == tr_sys_file_flush(tr_sys_file_write_line(stream, out))


(***************************************************************************)
(* logAddImpl(file, line, level, name, msg) run by thread t, which leaves  *)
(* message_mutex_ as it found it: locked on entry past the empty test,     *)
(* unlocked on return.                                                     *)
(***************************************************************************)
\* NewMessage without "newmsg->when = tr_time()" and without the name
NewMessage_Bare(file_line, level, name, msg) ==
    [addr |-> heap_next, level |-> level, when |-> 0, message |-> msg,
     file_line |-> file_line, name |-> EmptyStr]

NewMessage(file_line, level, name, msg) ==
    [addr |-> heap_next, level |-> level, when |-> now, message |-> msg,
     file_line |-> file_line, name |-> name]

logAddImpl(t, file_line, level, name, msg) ==
    IF empty(msg)
    THEN UNCHANGED <<myQueue, myQueueLength, heap_next, logfile, stdfile, errno,
                     submitted, evicted>>
    ELSE /\ CanLock(t)
         /\ \E e \in Errnos : errno' = [errno EXCEPT ![t] = e]
         /\ IF tr_logGetQueueEnabled
            THEN LET r == QueueAppend(myQueue, myQueueLength,
                                      NewMessage(file_line, level, name, msg))
                 IN  /\ myQueue' = r.queue
                     /\ myQueueLength' = r.length
                     /\ heap_next' = heap_next + 1
                     /\ evicted' = evicted \cup r.freed
                     /\ submitted' = Append(submitted,
                            [file_line |-> file_line, level |-> level,
                             name |-> name, msg |-> msg])
                     /\ UNCHANGED <<logfile, stdfile>>
            ELSE LET statics == tr_logGetFile(logfile)
                     fp == SinkOf(statics)
                     out == FormatLine(tr_logGetTimeStr(now), name, msg)
                 IN  /\ logfile' = statics
                     /\ stdfile' = [stdfile EXCEPT ![fp] = SinkWrite(@, out)]
                     /\ UNCHANGED <<myQueue, myQueueLength, heap_next, submitted, evicted>>

(***************************************************************************)
(* tr_logAddMessage(file, line, level, name, std::string_view msg)         *)
(***************************************************************************)
\* the caller enters with errno = e; "int const err = errno"
AddMessage_Enter(t, file_line, level, name, msg, e) ==
    /\ pc[t] = "idle"
    /\ pc' = [pc EXCEPT ![t] = "gate"]
    /\ frame' = [frame EXCEPT ![t] =
            [NoFrame EXCEPT !.form = "str", !.file_line = file_line, !.level = level,
                            !.name = name, !.msg = msg, !.err = e]]
    /\ errno' = [errno EXCEPT ![t] = e]
    /\ ncalls' = ncalls + 1
    /\ UNCHANGED <<globals, ret, submitted, evicted, returned>>

\* AddMessage_Gate with the lock_guard taken before the test of the level
AddMessage_Gate_LockFirst(t) ==
    /\ pc[t] = "gate"
    /\ CanLock(t)
    /\ IF SkipUnwanted(frame[t].level)
       THEN /\ errno' = [errno EXCEPT ![t] = frame[t].err]
            /\ pc' = [pc EXCEPT ![t] = "idle"]
            /\ frame' = [frame EXCEPT ![t] = NoFrame]
       ELSE /\ pc' = [pc EXCEPT ![t] = "lock"]
            /\ UNCHANGED <<errno, frame>>
    /\ UNCHANGED <<globals, ret, history>>

\* "skip unwanted messages"
AddMessage_Gate(t) ==
    /\ pc[t] = "gate"
    /\ IF SkipUnwanted(frame[t].level)
       THEN /\ errno' = [errno EXCEPT ![t] = frame[t].err]
            /\ pc' = [pc EXCEPT ![t] = "idle"]
            /\ frame' = [frame EXCEPT ![t] = NoFrame]
       ELSE /\ pc' = [pc EXCEPT ![t] = "lock"]
            /\ UNCHANGED <<errno, frame>>
    /\ UNCHANGED <<globals, ret, history>>

\* AddMessage_Lock without the lock_guard: only logAddImpl locks
AddMessage_Lock_Missing(t) ==
    /\ pc[t] = "lock"
    /\ pc' = [pc EXCEPT ![t] = "count"]
    /\ UNCHANGED <<globals, frame, errno, ret, history>>

\* "auto const lock = std::lock_guard(message_mutex_)"
AddMessage_Lock(t) ==
    /\ pc[t] = "lock"
    /\ CanLock(t)
    /\ message_mutex_' = Lock(message_mutex_, t)
    /\ pc' = [pc EXCEPT ![t] = "count"]
    /\ UNCHANGED <<tr_message_level, myQueueEnabled, myQueue, myQueueLength, counts,
                   logfile, TR_DEBUG_FD, stdfile, now, heap_next>>
    /\ UNCHANGED <<frame, errno, ret, history>>

\* IsSevere taking "info" for a severe level
IsSevere_WithInfo(level) == level <= TR_LOG_INFO

\* IsSevere counting the errors only
IsSevere_ErrorOnly(level) == level = TR_LOG_ERROR

IsSevere(level) == level \in {TR_LOG_CRITICAL, TR_LOG_ERROR, TR_LOG_WARN}

\* "last_one = count == MaxRepeat"
LastOne(count) == count = MaxRepeat

\* TooMany with >= for >
TooMany_OffByOne(count) == count >= MaxRepeat

\* "if (count > MaxRepeat)": the message is one too many
TooMany(count) == count > MaxRepeat

\* "don't log the same warning ad infinitum"
AddMessage_Count(t) ==
    /\ pc[t] = "count"
    /\ IF IsSevere(frame[t].level)
       THEN LET count == counts[frame[t].file_line] + 1
            IN  /\ counts' = [counts EXCEPT ![frame[t].file_line] = count]
                /\ IF TooMany(count)
                   THEN /\ errno' = [errno EXCEPT ![t] = frame[t].err]
                        /\ message_mutex_' = Unlock(message_mutex_)
                        /\ pc' = [pc EXCEPT ![t] = "idle"]
                        /\ frame' = [frame EXCEPT ![t] = NoFrame]
                   ELSE /\ frame' = [frame EXCEPT ![t].last_one = LastOne(count)]
                        /\ pc' = [pc EXCEPT ![t] = "impl"]
                        /\ UNCHANGED <<errno, message_mutex_>>
       ELSE /\ pc' = [pc EXCEPT ![t] = "impl"]
            /\ UNCHANGED <<counts, frame, errno, message_mutex_>>
    /\ UNCHANGED <<tr_message_level, myQueueEnabled, myQueue, myQueueLength,
                   logfile, TR_DEBUG_FD, stdfile, now, heap_next>>
    /\ UNCHANGED <<ret, history>>

\* AddMessage_Impl giving no notice after a message without a text
AddMessage_Impl_NoticeIfText(t) ==
    /\ pc[t] = "impl"
    /\ logAddImpl(t, frame[t].file_line, frame[t].level, frame[t].name, frame[t].msg)
    /\ pc' = [pc EXCEPT ![t] = IF frame[t].last_one /\ ~empty(frame[t].msg)
                                THEN "notice" ELSE "return"]
    /\ UNCHANGED <<tr_message_level, myQueueEnabled, message_mutex_, counts,
                   TR_DEBUG_FD, now>>
    /\ UNCHANGED <<frame, ret, ncalls, returned>>

\* "log the messages": logAddImpl(file, line, level, name, msg)
AddMessage_Impl(t) ==
    /\ pc[t] = "impl"
    /\ logAddImpl(t, frame[t].file_line, frame[t].level, frame[t].name, frame[t].msg)
    /\ pc' = [pc EXCEPT ![t] = IF frame[t].last_one THEN "notice" ELSE "return"]
    /\ UNCHANGED <<tr_message_level, myQueueEnabled, message_mutex_, counts,
                   TR_DEBUG_FD, now>>
    /\ UNCHANGED <<frame, ret, ncalls, returned>>

\* AddMessage_Notice giving the notice the name of the message
AddMessage_Notice_Named(t) ==
    /\ pc[t] = "notice"
    /\ logAddImpl(t, frame[t].file_line, frame[t].level, frame[t].name, TooManyMessages)
    /\ pc' = [pc EXCEPT ![t] = "return"]
    /\ UNCHANGED <<tr_message_level, myQueueEnabled, message_mutex_, counts,
                   TR_DEBUG_FD, now>>
    /\ UNCHANGED <<frame, ret, ncalls, returned>>

\* "if (last_one)": logAddImpl(file, line, level, "", the notice)
AddMessage_Notice(t) ==
    /\ pc[t] = "notice"
    /\ logAddImpl(t, frame[t].file_line, frame[t].level, EmptyStr, TooManyMessages)
    /\ pc' = [pc EXCEPT ![t] = "return"]
    /\ UNCHANGED <<tr_message_level, myQueueEnabled, message_mutex_, counts,
                   TR_DEBUG_FD, now>>
    /\ UNCHANGED <<frame, ret, ncalls, returned>>

\* "errno = err", and the lock_guard goes out of scope
AddMessage_Return(t) ==
    /\ pc[t] = "return"
    /\ errno' = [errno EXCEPT ![t] = frame[t].err]
    /\ message_mutex_' = Unlock(message_mutex_)
    /\ pc' = [pc EXCEPT ![t] = "idle"]
    /\ frame' = [frame EXCEPT ![t] = NoFrame]
    /\ UNCHANGED <<tr_message_level, myQueueEnabled, myQueue, myQueueLength, counts,
                   logfile, TR_DEBUG_FD, stdfile, now, heap_next>>
    /\ UNCHANGED <<ret, history>>

(***************************************************************************)
(* tr_logAddMessage(file, line, level, name, char const* fmt, ...)         *)
(***************************************************************************)
FormatError == Str(<<"(format error)">>, -1)

\* evutil_vsnprintf(buf, buflen, fmt, ap), `rendering` being what fmt and its
\* arguments render to: the length of the whole rendering (negative on an
\* error), and the buffer, which holds at most buflen - 1 bytes of it
evutil_vsnprintf(buflen, rendering) ==
    IF rendering.len < 0 THEN [buf_len |-> -1, buf |-> EmptyStr]
    ELSE [buf_len |-> rendering.len, buf |-> Prefix(rendering, buflen - 1)]

\* the caller enters with errno = e; "int const err = errno"
AddFormatted_Enter(t, file_line, level, name, rendering, e) ==
    /\ pc[t] = "idle"
    /\ pc' = [pc EXCEPT ![t] = "format"]
    /\ frame' = [frame EXCEPT ![t] =
            [NoFrame EXCEPT !.form = "fmt", !.file_line = file_line, !.level = level,
                            !.name = name, !.fmt = rendering, !.fmt_err = e]]
    /\ errno' = [errno EXCEPT ![t] = e]
    /\ ncalls' = ncalls + 1
    /\ UNCHANGED <<globals, ret, submitted, evicted, returned>>

\* FormatFailed taking a rendering of no bytes for a success
FormatFailed_NegativeOnly(buf_len) == buf_len < 0

\* "if (buf_len <= 0)"
FormatFailed(buf_len) == buf_len <= 0

\* "build the message"; on success the string form is entered, which saves
\* the errno it finds
AddFormatted_Format(t) ==
    /\ pc[t] = "format"
    /\ LET r == evutil_vsnprintf(BufSize, frame[t].fmt)
       IN  \E e \in Errnos :
             IF FormatFailed(r.buf_len)
             THEN /\ errno' = [errno EXCEPT ![t] = frame[t].fmt_err]
                  /\ pc' = [pc EXCEPT ![t] = "idle"]
                  /\ frame' = [frame EXCEPT ![t] = NoFrame]
             ELSE /\ errno' = [errno EXCEPT ![t] = e]
                  /\ pc' = [pc EXCEPT ![t] = "gate"]
                  /\ frame' = [frame EXCEPT ![t].msg = r.buf, ![t].err = e]
    /\ UNCHANGED <<globals, ret, history>>

(***************************************************************************)
(* tr_logGetQueue()                                                        *)
(***************************************************************************)
GetQueue_Enter(t) ==
    /\ pc[t] = "idle"
    /\ pc' = [pc EXCEPT ![t] = "drain"]
    /\ UNCHANGED <<globals, frame, errno, ret, history>>

tr_logGetQueue(t) ==
    /\ pc[t] = "drain"
    /\ CanLock(t)
    /\ LET r == QueueDrain(myQueue)
       IN  /\ ret' = [ret EXCEPT ![t] = r.ret]
           /\ myQueue' = r.queue
           /\ myQueueLength' = r.length
           /\ returned' = returned \o [i \in DOMAIN r.ret |-> r.ret[i].addr]
    /\ submitted' = <<>>
    /\ pc' = [pc EXCEPT ![t] = "idle"]
    /\ UNCHANGED <<tr_message_level, myQueueEnabled, message_mutex_, counts,
                   logfile, TR_DEBUG_FD, stdfile, now, heap_next>>
    /\ UNCHANGED <<frame, errno, ncalls, evicted>>


(***************************************************************************)
(* The steps of a call of the string form once it is entered.              *)
(***************************************************************************)
AddMessage_Step(t) ==
    \/ AddMessage_Gate(t)
    \/ AddMessage_Lock(t)
    \/ AddMessage_Count(t)
    \/ AddMessage_Impl(t)
    \/ AddMessage_Notice(t)
    \/ AddMessage_Return(t)

(***************************************************************************)
(* The callers' inputs.                                                    *)
(***************************************************************************)
SiteA == <<"a.cc", 10>>

SiteB == <<"b.cc", 20>>

NameIO == Str(<<"io">>, 2)

MsgA == Str(<<"A">>, 1)

MsgB == Str(<<"B">>, 1)

DiskFull == Str(<<"disk full">>, 9)

\* a rendering longer than the buffer
LongText == Str(<<"long">>, BufSize + 1)

(***************************************************************************)
(* Spec: two threads submit, drain and switch the queue in any             *)
(* interleaving.  TR_DEBUG_FD is not set, and a.cc:10 has already          *)
(* submitted MaxRepeat - 2 messages with an empty text at an active severe *)
(* level: they were counted and left no other trace (SpecFlood reaches     *)
(* that state, see BusySiteReached).                                       *)
(***************************************************************************)
BusySite == [s \in Sites |-> IF s = SiteA THEN MaxRepeat - 2 ELSE 0]

InitBusy ==
    /\ tr_message_level = TR_LOG_ERROR
    /\ myQueueEnabled = FALSE
    /\ myQueue = <<>>
    /\ myQueueLength = 0
    /\ message_mutex_ = [owner |-> NoThread, depth |-> 0]
    /\ counts = BusySite
    /\ logfile = [initialized |-> FALSE, file |-> TR_BAD_SYS_FILE]
    /\ TR_DEBUG_FD \in 0 .. 2
    /\ stdfile = [f \in StdFiles |-> NoStream]
    /\ now = 0
    /\ heap_next = 1
    /\ pc = [t \in Threads |-> "idle"]
    /\ frame = [t \in Threads |-> NoFrame]
    /\ errno = [t \in Threads |-> 0]
    /\ ret = [t \in Threads |-> <<>>]
    /\ ncalls = 0
    /\ submitted = <<>>
    /\ evicted = {}
    /\ returned = <<>>

InitBusyUnset == InitBusy /\ TR_DEBUG_FD = 0

Next ==
    \/ \E t \in Threads : AddMessage_Step(t)
    \/ \E t \in Threads : GetQueue_Enter(t)
    \/ \E t \in Threads : tr_logGetQueue(t)
    \/ /\ ncalls < MaxCalls
       /\ \E t \in Threads :
            \E in \in {<<SiteA, TR_LOG_ERROR, NameIO, DiskFull>>,
                       <<SiteB, TR_LOG_CRITICAL, EmptyStr, MsgA>>,
                       <<SiteB, TR_LOG_WARN, EmptyStr, MsgB>>} :
                AddMessage_Enter(t, in[1], in[2], in[3], in[4], 0)
    \/ \E isEnabled \in BOOLEAN : tr_logSetQueueEnabled(isEnabled)

Spec == InitBusyUnset /\ [][Next]_vars

(***************************************************************************)
(* SpecSeq: one thread uses the whole interface, in both forms, with the   *)
(* clock running and every setting of TR_DEBUG_FD.                         *)
(***************************************************************************)
NextSeq ==
    \/ AddMessage_Step("T1")
    \/ AddFormatted_Format("T1")
    \/ GetQueue_Enter("T1")
    \/ tr_logGetQueue("T1")
    \/ /\ ncalls < MaxSeqCalls
       /\ \E e \in Errnos :
            \E in \in {<<TR_LOG_ERROR, NameIO, DiskFull>>, <<TR_LOG_CRITICAL, EmptyStr, MsgA>>,
                       <<TR_LOG_INFO, EmptyStr, MsgA>>} :
                AddMessage_Enter("T1", SiteA, in[1], in[2], in[3], e)
    \/ /\ ncalls < MaxSeqCalls
       /\ \E e \in Errnos :
            \E in \in {<<TR_LOG_ERROR, MsgB>>, <<TR_LOG_ERROR, EmptyStr>>,
                       <<TR_LOG_ERROR, FormatError>>, <<TR_LOG_ERROR, LongText>>,
                       <<TR_LOG_DEBUG, MsgB>>} :
                AddFormatted_Enter("T1", SiteB, in[1], NameIO, in[2], e)
    \/ \E isEnabled \in BOOLEAN : tr_logSetQueueEnabled(isEnabled)
    \/ Tick

SpecSeq == InitBusy /\ [][NextSeq]_vars

(***************************************************************************)
(* SpecQueue: one thread fills the queue with messages and drains it.      *)
(***************************************************************************)
NextQueue ==
    \/ AddMessage_Step("T1")
    \/ GetQueue_Enter("T1")
    \/ tr_logGetQueue("T1")
    \/ /\ ncalls < MaxQueueCalls
       /\ \E in \in {<<SiteA, TR_LOG_ERROR, NameIO, MsgA>>,
                     <<SiteA, TR_LOG_CRITICAL, NameIO, MsgB>>,
                     <<SiteB, TR_LOG_CRITICAL, EmptyStr, MsgB>>,
                     <<SiteB, TR_LOG_ERROR, NameIO, EmptyStr>>,
                     <<SiteA, TR_LOG_INFO, EmptyStr, MsgA>>} :
            AddMessage_Enter("T1", in[1], in[2], in[3], in[4], 0)
    \/ \E isEnabled \in BOOLEAN : tr_logSetQueueEnabled(isEnabled)

SpecQueue == InitBusyUnset /\ [][NextQueue]_vars

(***************************************************************************)
(* SpecFlood: one thread submits from one call site again and again, at    *)
(* severe and at other levels, with and without text.                      *)
(***************************************************************************)
NextFlood ==
    \/ AddMessage_Step("T1")
    \/ /\ ncalls < MaxFloodCalls
       /\ \E in \in {<<TR_LOG_ERROR, MsgA>>, <<TR_LOG_CRITICAL, EmptyStr>>,
                     <<TR_LOG_WARN, MsgA>>, <<TR_LOG_INFO, MsgA>>, <<TR_LOG_DEBUG, EmptyStr>>} :
            AddMessage_Enter("T1", SiteA, in[1], NameIO, in[2], 0)
    \/ \E level \in {TR_LOG_ERROR, TR_LOG_DEBUG} : tr_logSetLevel(level)

SpecFlood == InitUnset /\ [][NextFlood]_vars

(***************************************************************************)
(* SpecGate: two threads submit at every level, in both forms, under every *)
(* threshold tr_logSetLevel is given, in range or not.                     *)
(***************************************************************************)
NextGate ==
    \/ \E t \in Threads : AddMessage_Step(t)
    \/ \E t \in Threads : AddFormatted_Format(t)
    \/ /\ ncalls < MaxGateCalls
       /\ \E t \in Threads, level \in Levels :
            AddMessage_Enter(t, SiteA, level, EmptyStr, MsgA, 0)
    \/ /\ ncalls < MaxGateCalls
       /\ \E t \in Threads :
            \E in \in {<<level, MsgB>> : level \in Levels}
                          \cup {<<TR_LOG_ERROR, FormatError>>, <<TR_LOG_ERROR, EmptyStr>>} :
                AddFormatted_Enter(t, SiteB, in[1], EmptyStr, in[2], 0)
    \/ \E level \in TR_LOG_CRITICAL - 1 .. TR_LOG_TRACE + 1 : tr_logSetLevel(level)

SpecGate == InitBusyUnset /\ [][NextGate]_vars

(***************************************************************************)
(* SpecLive: two threads submit and drain under a fair scheduler: a thread *)
(* that can take a step of the call it is in, all the time or again and    *)
(* again, takes it.  Nothing obliges a caller to make a call.              *)
(***************************************************************************)
ThreadStep(t) == AddMessage_Step(t) \/ tr_logGetQueue(t)

NextLive ==
    \/ \E t \in Threads : ThreadStep(t)
    \/ \E t \in Threads : GetQueue_Enter(t)
    \/ /\ ncalls < MaxLiveCalls
       /\ \E t \in Threads :
            \E in \in {<<TR_LOG_ERROR, DiskFull>>, <<TR_LOG_WARN, EmptyStr>>,
                       <<TR_LOG_DEBUG, MsgA>>} :
                AddMessage_Enter(t, SiteA, in[1], NameIO, in[2], 0)
    \/ \E isEnabled \in BOOLEAN : tr_logSetQueueEnabled(isEnabled)

Fairness == \A t \in Threads : SF_vars(ThreadStep(t))

SpecLive == InitBusyUnset /\ [][NextLive]_vars /\ Fairness


(***************************************************************************)
(* The properties.                                                         *)
(***************************************************************************)
\* thread t's tr_logGetQueue returns in this step
Drains(t) == pc[t] = "drain" /\ pc'[t] = "idle"

\* the records of `list` are the submissions `subs`, one for one and in order
SameRecords(list, subs) ==
    /\ Len(list) = Len(subs)
    /\ \A i \in DOMAIN list :
        /\ list[i].message = subs[i].msg
        /\ list[i].name = subs[i].name
        /\ list[i].level = subs[i].level
        /\ list[i].file_line = subs[i].file_line
    /\ \A i, j \in DOMAIN list : i < j => list[i].addr < list[j].addr

LastN(seq, n) ==
    IF Len(seq) <= n THEN seq ELSE SubSeq(seq, Len(seq) - n + 1, Len(seq))

Range(seq) == {seq[i] : i \in DOMAIN seq}

\* C1: when no more than TR_LOG_MAX_QUEUE_LENGTH messages were queued since
\* the queue was last empty, tr_logGetQueue returns exactly their records, in
\* the order of their submission.
C1_DrainReturnsAll ==
    [][\A t \in Threads :
         (Drains(t) /\ Len(submitted) <= TR_LOG_MAX_QUEUE_LENGTH)
            => SameRecords(ret'[t], submitted)]_vars

\* a drain has returned a full queue of different messages, none evicted
C1_Witness ==
    /\ pc["T1"] = "idle"
    /\ Len(ret["T1"]) = TR_LOG_MAX_QUEUE_LENGTH
    /\ ret["T1"][1].message # ret["T1"][2].message
    /\ evicted = {}

\* C2: when capacity + K messages (K > 0) were queued since the queue was last
\* empty, tr_logGetQueue returns exactly the `capacity` most recent of them,
\* oldest first, and no evicted record is ever handed to a caller.
C2_DrainReturnsNewest ==
    /\ [][\A t \in Threads :
            (Drains(t) /\ Len(submitted) > TR_LOG_MAX_QUEUE_LENGTH)
               => /\ Len(ret'[t]) = TR_LOG_MAX_QUEUE_LENGTH
                  /\ SameRecords(ret'[t], LastN(submitted, TR_LOG_MAX_QUEUE_LENGTH))]_vars
    /\ [](evicted \cap Range(returned) = {})

\* a drain has returned a full queue after K = 2 evictions
C2_Witness ==
    /\ pc["T1"] = "idle"
    /\ Len(ret["T1"]) = TR_LOG_MAX_QUEUE_LENGTH
    /\ ret["T1"][1].addr = 3
    /\ ret["T1"][1].message # ret["T1"][2].message
    /\ evicted = {1, 2}

\* a record is queued in this step
Inserts == Len(submitted') = Len(submitted) + 1

\* C3: in every state myQueueLength is the length of the queue and does not
\* exceed TR_LOG_MAX_QUEUE_LENGTH, and an insertion into a full queue evicts
\* exactly one record, the oldest.
C3_QueueBounded ==
    /\ [](myQueueLength = Len(myQueue) /\ myQueueLength <= TR_LOG_MAX_QUEUE_LENGTH)
    /\ [][(Inserts /\ myQueueLength = TR_LOG_MAX_QUEUE_LENGTH)
            => /\ Tail(myQueue) = SubSeq(myQueue', 1, Len(myQueue') - 1)
               /\ Len(myQueue') = TR_LOG_MAX_QUEUE_LENGTH
               /\ myQueueLength' = TR_LOG_MAX_QUEUE_LENGTH
               /\ evicted' = evicted \cup {Head(myQueue).addr}
               /\ Head(myQueue).addr \notin evicted]_vars

\* a thread has just inserted into a full queue while the other is in a call
C3_Witness ==
    /\ myQueueLength = TR_LOG_MAX_QUEUE_LENGTH
    /\ evicted # {}
    /\ pc["T1"] = "return"
    /\ pc["T2"] \notin {"idle"}


(***************************************************************************)
(* What a submission puts out.                                             *)
(***************************************************************************)
\* the stream TR_DEBUG_FD selects
ActiveSink == IF TR_DEBUG_FD = 1 THEN TR_STD_SYS_FILE_OUT ELSE TR_STD_SYS_FILE_ERR

OtherSink == IF TR_DEBUG_FD = 1 THEN TR_STD_SYS_FILE_ERR ELSE TR_STD_SYS_FILE_OUT

\* "[<timestamp>] <name>: <text>", or "[<timestamp>] <text>" without a name
ExpectedLine(name, msg) ==
    LET stamp == tr_logGetTimeStr(now)
    IN  IF name.len = 0
        THEN Str(<<"[">> \o stamp.text \o <<"] ">> \o msg.text, 1 + stamp.len + 2 + msg.len)
        ELSE Str(<<"[">> \o stamp.text \o <<"] ">> \o name.text \o <<": ">> \o msg.text,
                 1 + stamp.len + 2 + name.len + 2 + msg.len)

\* this step writes the one line of (name, msg) on the active sink
Written(name, msg) ==
    /\ stdfile'[ActiveSink].lines = stdfile[ActiveSink].lines + 1
    /\ stdfile'[ActiveSink].last = ExpectedLine(name, msg)
    /\ stdfile'[OtherSink] = stdfile[OtherSink]
    /\ UNCHANGED <<myQueue, myQueueLength>>

\* this step queues the one record of the submission at the tail
Queued(file_line, level, name, msg) ==
    /\ myQueue' # <<>>
    /\ LET r == myQueue'[Len(myQueue')]
       IN  /\ r.addr = heap_next
           /\ r.addr \notin {myQueue[i].addr : i \in DOMAIN myQueue}
           /\ r.message = msg /\ r.name = name /\ r.level = level
           /\ r.file_line = file_line /\ r.when = now
    /\ UNCHANGED stdfile

Delivered(file_line, level, name, msg) ==
    Written(name, msg) \/ Queued(file_line, level, name, msg)

NoOutput == UNCHANGED <<stdfile, myQueue, myQueueLength>>

\* thread t leaves the step `at` of its call in this step
Leaves(t, at) == pc[t] = at /\ pc'[t] # at

\* what the flood suppressor does with thread t's call at a severe level, the
\* count of its call site being the number of the call; with anyText, a
\* message is held to be delivered whatever its text, else if it has a text
FloodRule(t, anyText) ==
    LET f == frame[t]
        site == f.file_line
    IN  f.level \in {TR_LOG_CRITICAL, TR_LOG_ERROR, TR_LOG_WARN} =>
          /\ Leaves(t, "count") =>
                /\ counts'[site] = counts[site] + 1
                /\ NoOutput
                /\ pc'[t] = IF counts'[site] <= MaxRepeat THEN "impl" ELSE "idle"
          /\ Leaves(t, "impl") =>
                /\ (anyText \/ ~empty(f.msg)) => Delivered(site, f.level, f.name, f.msg)
                /\ pc'[t] = IF counts[site] = MaxRepeat THEN "notice" ELSE "return"
          /\ Leaves(t, "notice") =>
                /\ counts[site] = MaxRepeat
                /\ Delivered(site, f.level, EmptyStr, TooManyMessages)
                /\ pc'[t] = "return"
          /\ Leaves(t, "return") => NoOutput /\ pc'[t] = "idle"

CountsGrow == \A s \in Sites : counts'[s] >= counts[s]

\* C4 as stated: of the active severe messages of a call site, the first 30
\* are delivered, the 30th is followed at once by one notice, and every later
\* one is dropped with no output; the counts never go back.
C4_Original ==
    [][CountsGrow /\ \A t \in Threads : FloodRule(t, TRUE)]_vars

\* C4, amended: as C4_Original for the messages that have a text (one with an
\* empty text is counted and puts out nothing).
C4_FloodCutOff ==
    [][CountsGrow /\ \A t \in Threads : FloodRule(t, FALSE)]_vars

\* 30 messages and the notice are out, and the 31st has been dropped
C4_Witness ==
    /\ counts[SiteA] = MaxRepeat + 1
    /\ pc["T1"] = "idle"
    /\ stdfile[TR_STD_SYS_FILE_ERR].lines = MaxRepeat + 1
    /\ stdfile[TR_STD_SYS_FILE_ERR].last = ExpectedLine(EmptyStr, TooManyMessages)

\* what happens to thread t's call at info, debug or trace level once it is
\* past the gate
QuietRule(t, anyText) ==
    LET f == frame[t]
    IN  f.level \in {TR_LOG_INFO, TR_LOG_DEBUG, TR_LOG_TRACE} =>
          /\ Leaves(t, "lock") => pc'[t] = "count" /\ counts' = counts
          /\ Leaves(t, "count") =>
                pc'[t] = "impl" /\ counts' = counts /\ ~frame'[t].last_one
          /\ Leaves(t, "impl") =>
                /\ (anyText \/ ~empty(f.msg)) => Delivered(f.file_line, f.level, f.name, f.msg)
                /\ pc'[t] = "return"
                /\ counts' = counts
          /\ Leaves(t, "return") => counts' = counts

\* C5 as stated: a message at info, debug or trace level that passes the gate
\* is delivered, whatever the count of its call site, and no count changes.
C5_Original ==
    [][\A t \in Threads : QuietRule(t, TRUE)]_vars

\* C5, amended: as C5_Original for the messages that have a text.
C5_NeverSuppressed ==
    [][\A t \in Threads : QuietRule(t, FALSE)]_vars

\* an info message of a call site that is already cut off has been written
C5_Witness ==
    /\ counts[SiteA] > MaxRepeat
    /\ pc["T1"] = "return"
    /\ frame["T1"].level = TR_LOG_INFO
    /\ stdfile[TR_STD_SYS_FILE_ERR].last = ExpectedLine(NameIO, MsgA)
    /\ stdfile[TR_STD_SYS_FILE_ERR].lines = MaxRepeat + 2

\* SpecFlood reaches the state the other specifications start from
BusySiteReached ==
    /\ counts = BusySite
    /\ tr_message_level = TR_LOG_ERROR
    /\ ~myQueueEnabled
    /\ myQueue = <<>> /\ myQueueLength = 0
    /\ message_mutex_ = [owner |-> NoThread, depth |-> 0]
    /\ logfile = [initialized |-> FALSE, file |-> TR_BAD_SYS_FILE]
    /\ stdfile = [f \in StdFiles |-> NoStream]
    /\ now = 0 /\ heap_next = 1
    /\ pc = [t \in Threads |-> "idle"]
    /\ frame = [t \in Threads |-> NoFrame]
    /\ errno = [t \in Threads |-> 0]
    /\ ret = [t \in Threads |-> <<>>]
    /\ submitted = <<>> /\ evicted = {} /\ returned = <<>>


\* the errno thread t's caller had when it entered the call t is in
EntryErrno(t) == IF frame[t].form = "fmt" THEN frame[t].fmt_err ELSE frame[t].err

\* thread t's submission returns in this step
Returns(t) == pc[t] \in {"format", "gate", "count", "return"} /\ pc'[t] = "idle"

\* C6: when a submission of either form returns, errno is what it was when
\* the call was entered.
C6_ErrnoRestored ==
    [][\A t \in Threads : Returns(t) => errno'[t] = EntryErrno(t)]_vars

\* C7: a message passes the gate exactly when its level is no more verbose
\* than the threshold, so whenever a level passes every more severe one does.
C7_GateMonotone ==
    /\ [](\A l1, l2 \in Levels :
            (l1 < l2 /\ ~SkipUnwanted(l2)) => ~SkipUnwanted(l1))
    /\ [][\A t \in Threads :
            Leaves(t, "gate") => (pc'[t] = "lock" <=> frame[t].level <= tr_message_level)]_vars

\* a message has passed the gate at the threshold itself, set to info
C7_Witness ==
    /\ tr_message_level = TR_LOG_INFO
    /\ pc["T1"] = "lock"
    /\ frame["T1"].level = TR_LOG_INFO
    /\ ncalls = MaxGateCalls

\* the gate rejects the level of the call thread t is in
Rejected(t) == pc[t] = "gate" /\ frame[t].level > tr_message_level

\* C8: a submission of either form whose level the gate rejects returns from
\* the gate with the lock, the queue, the counts and the sinks as they were,
\* and neither the formatting nor the gate waits for the lock.
C8_RejectTouchesNothing ==
    /\ [][\A t \in Threads :
            (Leaves(t, "format") \/ (Rejected(t) /\ Leaves(t, "gate")))
               => /\ UNCHANGED <<message_mutex_, myQueue, myQueueLength, counts, stdfile>>
                  /\ Leaves(t, "gate") => pc'[t] = "idle"]_vars
    /\ [](\A t \in Threads :
            /\ Rejected(t) => ENABLED AddMessage_Gate(t)
            /\ pc[t] = "format" => ENABLED AddFormatted_Format(t))

\* a call has come and gone with no trace while the other thread held the lock
C8_Witness ==
    /\ ncalls = 2
    /\ pc["T1"] = "idle"
    /\ pc["T2"] = "count"
    /\ message_mutex_.owner = "T2"
    /\ counts = BusySite
    /\ \A f \in StdFiles : stdfile[f].lines = 0
    /\ myQueue = <<>>

\* how many times x occurs in seq
Occurrences(seq, x) == Cardinality({i \in DOMAIN seq : seq[i] = x})

\* C9: every record ever queued is exactly once in the queue, in what the
\* drains returned, or among the evicted; a drain returns the whole queue as
\* it is at that instant and leaves it empty, as it was at the start.
C9_DrainAtomic ==
    /\ [](\A a \in 1 .. heap_next - 1 :
            Occurrences([i \in DOMAIN myQueue |-> myQueue[i].addr], a)
              + Occurrences(returned, a)
              + (IF a \in evicted THEN 1 ELSE 0) = 1)
    /\ [][\A t \in Threads :
            Drains(t) => /\ ret'[t] = myQueue
                         /\ myQueue' = <<>>
                         /\ myQueueLength' = 0
                         /\ returned' = returned \o [i \in DOMAIN myQueue |-> myQueue[i].addr]
                         /\ UNCHANGED <<evicted, heap_next>>]_vars

\* records have been evicted, returned by a drain and queued after it
C9_Witness ==
    /\ evicted # {}
    /\ returned # <<>>
    /\ myQueue # <<>>
    /\ \E t \in Threads : ret[t] # <<>> /\ pc[t] # "idle"

\* C10: with queueing disabled, a message with a text puts exactly one line
\* "[<timestamp>] <name>: <text>" ("[<timestamp>] <text>" without a name) on
\* the active sink and leaves the queue alone, and every line written is
\* flushed.
C10_OneLineFlushed ==
    /\ [](\A f \in StdFiles : stdfile[f].flushed = stdfile[f].lines)
    /\ [][\A t \in Threads :
            ~myQueueEnabled =>
               /\ (Leaves(t, "impl") /\ ~empty(frame[t].msg))
                     => Written(frame[t].name, frame[t].msg)
               /\ Leaves(t, "notice") => Written(EmptyStr, TooManyMessages)]_vars

\* "disk full" from "io" at error level is the one line on standard error
C10_Witness ==
    /\ ~myQueueEnabled
    /\ pc["T1"] = "return"
    /\ frame["T1"].level = TR_LOG_ERROR
    /\ stdfile[TR_STD_SYS_FILE_ERR] =
          [lines |-> 1, last |-> ExpectedLine(NameIO, DiskFull), flushed |-> 1]
    /\ stdfile[TR_STD_SYS_FILE_OUT].lines = 0
    /\ myQueue = <<>>

\* the queue after this step is the queue before it, less its head when it
\* was full, with one record more at the tail
AppendedAtTail ==
    /\ myQueue' # <<>>
    /\ SubSeq(myQueue', 1, Len(myQueue') - 1) =
          IF myQueueLength < TR_LOG_MAX_QUEUE_LENGTH THEN myQueue ELSE Tail(myQueue)
    /\ Len(submitted') = Len(submitted) + 1

\* C11: with queueing enabled, a message with a text (and the notice) becomes
\* one record of its level, time, text, file and line, and name, appended at
\* the tail of the queue, and nothing is written or flushed on any sink nor
\* is a sink chosen.
C11_QueuedNotWritten ==
    [][\A t \in Threads :
         myQueueEnabled =>
            /\ (Leaves(t, "impl") /\ ~empty(frame[t].msg))
                  => /\ Queued(frame[t].file_line, frame[t].level, frame[t].name,
                               frame[t].msg)
                     /\ AppendedAtTail
                     /\ UNCHANGED <<stdfile, logfile>>
            /\ Leaves(t, "notice")
                  => /\ Queued(frame[t].file_line, frame[t].level, EmptyStr, TooManyMessages)
                     /\ AppendedAtTail
                     /\ UNCHANGED <<stdfile, logfile>>]_vars

\* "disk full" from "io" at a.cc:10, submitted at time 1, is the one record
\* of the queue and no sink has a line
C11_Witness ==
    /\ myQueueEnabled
    /\ pc["T1"] = "return"
    /\ Len(myQueue) = 1
    /\ myQueue[1] = [addr |-> 1, level |-> TR_LOG_ERROR, when |-> 1, message |-> DiskFull,
                     file_line |-> SiteA, name |-> NameIO]
    /\ \A f \in StdFiles : stdfile[f] = NoStream
    /\ ~logfile.initialized

\* the formatting primitive reports an error or no bytes for the call of the
\* printf form thread t is in
RenderingFails(t) ==
    /\ pc[t] = "format"
    /\ evutil_vsnprintf(BufSize, frame[t].fmt).buf_len <= 0

\* C12: a call of the printf form whose formatting reports an error or a
\* length of zero or less returns from the formatting with the queue, the
\* sinks, the counts and the lock as they were, and does not wait for the
\* lock.
C12_FormatFailureDrops ==
    /\ [][\A t \in Threads :
            (RenderingFails(t) /\ Leaves(t, "format"))
               => /\ pc'[t] = "idle"
                  /\ UNCHANGED <<myQueue, myQueueLength, stdfile, logfile, counts,
                                 message_mutex_, heap_next>>]_vars
    /\ [](\A t \in Threads : RenderingFails(t) => ENABLED AddFormatted_Format(t))

\* a call of the printf form at an active level, whose format is in error,
\* is about to return while the other thread holds the lock
C12_Witness ==
    /\ RenderingFails("T1")
    /\ frame["T1"].fmt = FormatError
    /\ frame["T1"].level = TR_LOG_ERROR
    /\ tr_message_level = TR_LOG_ERROR
    /\ pc["T2"] = "impl"
    /\ message_mutex_.owner = "T2"
    /\ ENABLED (AddFormatted_Format("T1") /\ pc'["T1"] = "idle")

\* the rendering of the call of the printf form thread t is in does not fit
\* the buffer with its terminating NUL
OverLength(t) == frame[t].form = "fmt" /\ frame[t].fmt.len >= BufSize

\* C13: a call of the printf form whose rendering is longer than the buffer
\* returns from the formatting, and no step of it queues or writes anything.
C13_OverLengthDropped ==
    [][\A t \in Threads :
         OverLength(t) =>
            /\ Leaves(t, "format") => pc'[t] = "idle"
            /\ pc[t] # "idle" => NoOutput]_vars

\* C14: whatever value tr_logSetLevel is given, the threshold tr_logGetLevel
\* returns is one of the six levels.
C14_LevelClamped == tr_logGetLevel \in Levels

\* the notice of thread t's call is delivered in this step as a line without
\* a name, or as a record of the call's level, without a name, of call site
\* `site`
NoticeDelivered(t, site) ==
    Leaves(t, "notice") =>
       /\ counts[frame[t].file_line] = MaxRepeat
       /\ Delivered(site, frame[t].level, EmptyStr, TooManyMessages)

\* C15 as stated: the notice has the level of the message that set it off, no
\* name and no call site.
C15_Original ==
    [][\A t \in Threads : NoticeDelivered(t, NoSite)]_vars

\* C15, amended: the notice has the level of the message that set it off, no
\* name, and the file and line of that message.
C15_NoticeOfSite ==
    [][\A t \in Threads : NoticeDelivered(t, frame[t].file_line)]_vars

\* the 30th message of a.cc:10, named "io", and its notice are queued
C15_Witness ==
    /\ myQueueEnabled
    /\ counts[SiteA] = MaxRepeat
    /\ pc["T1"] = "return"
    /\ Len(myQueue) = 2
    /\ myQueue[1].name = NameIO /\ myQueue[1].message = DiskFull
    /\ myQueue[2] = [addr |-> myQueue[1].addr + 1, level |-> TR_LOG_ERROR, when |-> 0,
                     message |-> TooManyMessages, file_line |-> SiteA, name |-> EmptyStr]

\* the lock is held by a thread that is inside the locked part of a call, and
\* by no thread otherwise
LockHeldInCall ==
    /\ message_mutex_.owner # NoThread
          => /\ pc[message_mutex_.owner] \in {"count", "impl", "notice", "return"}
             /\ message_mutex_.depth = 1
    /\ message_mutex_.owner = NoThread
          => /\ message_mutex_.depth = 0
             /\ \A t \in Threads : pc[t] \in {"idle", "gate", "lock", "drain"}

\* C16: a thread that holds the lock passes through logAddImpl, which locks
\* again; under a fair scheduler every submission and every drain returns,
\* and the lock is free whenever no call is in progress.
C16_CallsReturn ==
    /\ \A t \in Threads : (pc[t] # "idle") ~> (pc[t] = "idle")
    /\ [](LockHeldInCall)
    /\ [](\A t \in Threads :
            (pc[t] \in {"impl", "notice"} /\ message_mutex_.owner = t)
                => ENABLED AddMessage_Step(t))

\* a thread has queued its message and the notice through logAddImpl while
\* holding the lock, and the other thread's drain waits for the lock
C16_Witness ==
    /\ pc["T1"] = "return"
    /\ message_mutex_ = [owner |-> "T1", depth |-> 1]
    /\ Len(myQueue) = 2
    /\ myQueue[2].message = TooManyMessages
    /\ pc["T2"] = "drain"
    /\ ~ENABLED tr_logGetQueue("T2")

\* the threads that have counted MaxRepeat for call site s and have not yet
\* delivered the notice
AtLastOne(s) ==
    {t \in Threads : /\ pc[t] \in {"impl", "notice"}
                     /\ frame[t].last_one
                     /\ frame[t].file_line = s}

\* C17: from the counting of a call to its return no other thread's step
\* changes the count of any site, the queue or the sinks, so the 30th message
\* and its notice are delivered next to each other; the count of a site goes
\* up by one at each counting, so one thread only counts 30 and the notice is
\* queued once.
C17_OneCriticalSection ==
    /\ [][\A t \in Threads :
            (pc[t] \in {"count", "impl", "notice", "return"} /\ pc'[t] = pc[t])
               => UNCHANGED <<counts, myQueue, myQueueLength, stdfile>>]_vars
    /\ [][\A t \in Threads :
            (Leaves(t, "count") /\ frame[t].level \in {TR_LOG_CRITICAL, TR_LOG_ERROR, TR_LOG_WARN})
               => /\ counts'[frame[t].file_line] = counts[frame[t].file_line] + 1
                  /\ frame'[t].last_one = (counts'[frame[t].file_line] = MaxRepeat
                                             /\ pc'[t] = "impl")]_vars
    /\ [](\A s \in Sites :
            /\ Cardinality(AtLastOne(s)) <= 1
            /\ AtLastOne(s) # {} => counts[s] = MaxRepeat
            /\ Cardinality({i \in DOMAIN submitted :
                               /\ submitted[i].msg = TooManyMessages
                               /\ submitted[i].file_line = s}) <= 1)

\* a thread has queued the 30th message of a.cc:10 and not yet the notice,
\* while the other thread's message from a.cc:10 waits for the lock
C17_Witness ==
    /\ pc["T1"] = "notice"
    /\ frame["T1"].file_line = SiteA
    /\ counts[SiteA] = MaxRepeat
    /\ myQueueEnabled
    /\ myQueue # <<>>
    /\ myQueue[Len(myQueue)].message = DiskFull
    /\ pc["T2"] = "lock"
    /\ frame["T2"].file_line = SiteA
    /\ ~ENABLED AddMessage_Lock("T2")

\* what the counting and the delivery of thread t's call do with the counts:
\* a call at a severe level adds one to the count of its own call site,
\* whatever its level, and is cut off by that count alone; no other step
\* changes a count
KeyedBySite(t, anyText) ==
    LET f == frame[t]
        site == f.file_line
        severe == f.level \in {TR_LOG_CRITICAL, TR_LOG_ERROR, TR_LOG_WARN}
    IN  /\ Leaves(t, "count") =>
              /\ counts' = IF severe THEN [counts EXCEPT ![site] = counts[site] + 1]
                           ELSE counts
              /\ pc'[t] = IF severe /\ counts[site] >= MaxRepeat THEN "idle" ELSE "impl"
              /\ NoOutput
        /\ (Leaves(t, "impl") /\ severe) =>
              /\ counts[site] <= MaxRepeat
              /\ (anyText \/ ~empty(f.msg)) => Delivered(site, f.level, f.name, f.msg)

CountsChangeInCounting ==
    counts' # counts => \E t \in Threads : Leaves(t, "count")

\* C18 as stated: the count of a call site is shared by the severe levels and
\* is the number of its messages delivered, up to 30; the counts of other
\* call sites are left alone and no count goes back.
C18_Original ==
    [][/\ CountsGrow
       /\ CountsChangeInCounting
       /\ \A t \in Threads : KeyedBySite(t, TRUE)]_vars

\* C18, amended: as C18_Original, the count being the number of the call
\* site's submissions at severe levels, of which those with a text are
\* delivered.
C18_KeyedBySite ==
    [][/\ CountsGrow
       /\ CountsChangeInCounting
       /\ \A t \in Threads : KeyedBySite(t, FALSE)]_vars

\* the 29th message of a.cc:10 was an error and the 30th is critical, both
\* queued, while b.cc:20 has counted one message
C18_Witness ==
    /\ myQueueEnabled
    /\ pc["T1"] = "notice"
    /\ frame["T1"].level = TR_LOG_CRITICAL
    /\ counts[SiteA] = MaxRepeat
    /\ counts[SiteB] = 1
    /\ Len(myQueue) = 2
    /\ myQueue[1].level = TR_LOG_ERROR /\ myQueue[1].file_line = SiteA
    /\ myQueue[2].level = TR_LOG_CRITICAL /\ myQueue[2].file_line = SiteA

\* C19: a submission of the string form with an empty text at an active
\* severe level adds one to the count of its call site, queues and writes
\* nothing itself, and when its count is 30 the notice is delivered all the
\* same.
C19_EmptyTextCounted ==
    [][\A t \in Threads :
         LET f == frame[t]
             site == f.file_line
         IN  (f.form = "str" /\ empty(f.msg)
                /\ f.level \in {TR_LOG_CRITICAL, TR_LOG_ERROR, TR_LOG_WARN}) =>
                /\ Leaves(t, "count") => counts'[site] = counts[site] + 1 /\ NoOutput
                /\ Leaves(t, "impl") =>
                      /\ NoOutput
                      /\ UNCHANGED <<logfile, heap_next, submitted>>
                      /\ pc'[t] = IF counts[site] = MaxRepeat THEN "notice" ELSE "return"
                /\ Leaves(t, "notice") =>
                      Delivered(site, f.level, EmptyStr, TooManyMessages)
                /\ Leaves(t, "return") => NoOutput]_vars

\* thirty submissions without a text: the notice is the one line written
C19_Witness ==
    /\ counts[SiteA] = MaxRepeat
    /\ ncalls = MaxRepeat
    /\ pc["T1"] = "return"
    /\ empty(frame["T1"].msg)
    /\ frame["T1"].last_one
    /\ stdfile[TR_STD_SYS_FILE_ERR] =
          [lines |-> 1, last |-> ExpectedLine(EmptyStr, TooManyMessages), flushed |-> 1]

\* C20: a step that switches queueing on or off changes nothing but the
\* flag, and a drain, with queueing on or off, returns the most recent
\* records queued since the last drain, up to the capacity, oldest first.
C20_FlagOnly ==
    /\ [][myQueueEnabled' # myQueueEnabled
            => UNCHANGED <<tr_message_level, myQueue, myQueueLength, message_mutex_,
                           counts, logfile, TR_DEBUG_FD, stdfile, now, heap_next,
                           locals, history>>]_vars
    /\ [][\A t \in Threads :
            Drains(t) => SameRecords(ret'[t], LastN(submitted, TR_LOG_MAX_QUEUE_LENGTH))]_vars

\* queueing was switched off with two records in the queue, which a drain is
\* about to return
C20_Witness ==
    /\ ~myQueueEnabled
    /\ Len(myQueue) = 2
    /\ myQueueLength = 2
    /\ myQueue[1].addr < myQueue[2].addr
    /\ pc["T2"] = "drain"
    /\ ENABLED tr_logGetQueue("T2")

====
